---- MODULE Spec2Model ----
(***************************************************************************)
(* A model of the SEO log analyser (src/app.py): the line parser           *)
(* parse_log_file with its user-agent classification, and the Streamlit    *)
(* script main(), which is re-run from top to bottom on every user         *)
(* interaction and keeps one value, st.session_state.filtered_df, between  *)
(* reruns.                                                                 *)
(*                                                                         *)
(* A log line is a record of the tokens the regular expression LOG_PATTERN *)
(* looks at; digit fields are sequences of characters, so that matching    *)
(* and int() conversion are computed rather than assumed.  A user-agent    *)
(* string is a sequence of tokens and "s in user_agent_str" is token       *)
(* occurrence.  The verdict of the external user_agents library for the    *)
(* line's user-agent is part of the input (field sniff).                   *)
(***************************************************************************)
EXTENDS Integers, Sequences, FiniteSets, TLC

VARIABLES
    \* parse_log_file, one call
    lines,            \* the decoded lines of the file being parsed
    i,                \* number of loop iterations completed
    data,             \* the list of dicts accumulated by the loop
    progress,         \* last value given to progress_bar.progress, as <<num, den>>
    pc,               \* "idle" | "loop" | "done"
    result,           \* what parse_log_file returned and whether st.error was raised
    \* main(), one rerun of the script
    uploaded_file,    \* the file uploader's value
    session_state,    \* st.session_state, kept between reruns
    apply_filters,    \* whether this rerun was caused by the Apply Filters button
    criteria,         \* the filter widgets' values in this rerun
    df,               \* the frame parse_log_file returned in this rerun
    filtered_df,      \* the local filtered_df the views are computed from
    page,             \* what this rerun rendered
    stored_by         \* history: the kind of run that last assigned
                      \* st.session_state.filtered_df: "none" | "load" | "click"

vars == <<lines, i, data, progress, pc, result, uploaded_file, session_state,
          apply_filters, criteria, df, filtered_df, page, stored_by>>

parseVars == <<lines, i, data, progress, pc, result>>
appVars == <<uploaded_file, session_state, apply_filters, criteria, df, filtered_df, page,
             stored_by>>

-----------------------------------------------------------------------------
(* Bounds *)

\* longest file given to the stepwise parse loop
MaxLines == 3
\* longest user-agent, in tokens, in the classification inputs
MaxUaTokens == 2

-----------------------------------------------------------------------------
(* Characters and integers *)

DigitChars == {"0", "1", "2", "3", "4", "5", "6", "7", "8", "9"}

DigitVal ==
    "0" :> 0 @@ "1" :> 1 @@ "2" :> 2 @@ "3" :> 3 @@ "4" :> 4 @@
    "5" :> 5 @@ "6" :> 6 @@ "7" :> 7 @@ "8" :> 8 @@ "9" :> 9

\* \d{n,m} on a character sequence
AllDigits(s) == \A k \in 1..Len(s) : s[k] \in DigitChars

\* int(s) for a string of decimal digits
RECURSIVE IntOf(_)
IntOf(s) ==
    IF s = <<>> THEN 0
    ELSE 10 * IntOf(SubSeq(s, 1, Len(s) - 1)) + DigitVal[s[Len(s)]]

-----------------------------------------------------------------------------
(* LOG_PATTERN *)

Methods == {"GET", "POST", "PUT", "DELETE", "HEAD"}

\* strings of the form HTTP/\d\.\d among the protocol tokens used here
HttpVersions == {"HTTP/1.0", "HTTP/1.1", "HTTP/2.0"}

\* (\d{1,3}\.\d{1,3}\.\d{1,3}\.\d{1,3}): four groups of one to three digits
IpMatch(ip) == Len(ip) = 4 /\ \A k \in 1..4 : ip[k] \in 0..999

\* \[(\d{2}/\w{3}/\d{4}:\d{2}:\d{2}:\d{2} \+\d{4})\]: the offset sign is a literal +
TimestampMatch(ts) ==
    /\ ts.complete
    /\ ts.day \in 0..99
    /\ ts.year \in 0..9999
    /\ ts.hh \in 0..99 /\ ts.mm \in 0..99 /\ ts.ss \in 0..99
    /\ ts.sign = "+"
    /\ ts.off \in 0..9999

\* (\d+|-)
BytesMatch(b) == b = <<"-">> \/ (Len(b) >= 1 /\ AllDigits(b))

\* LOG_PATTERN.match(line.strip())
LogPatternMatch(line) ==
    /\ IpMatch(line.ip)
    /\ TimestampMatch(line.ts)
    /\ line.method \in Methods
    /\ line.proto \in HttpVersions
    /\ Len(line.status) = 3 /\ AllDigits(line.status)
    /\ BytesMatch(line.bytes)
    /\ line.closed

-----------------------------------------------------------------------------
(* datetime.strptime(timestamp_str, DATE_FORMAT) *)

MonthNumber ==
    "Jan" :> 1 @@ "Feb" :> 2 @@ "Mar" :> 3 @@ "Apr" :> 4 @@ "May" :> 5 @@
    "Jun" :> 6 @@ "Jul" :> 7 @@ "Aug" :> 8 @@ "Sep" :> 9 @@ "Oct" :> 10 @@
    "Nov" :> 11 @@ "Dec" :> 12

DaysIn(y, m) ==
    IF m = 2 THEN (IF y % 4 = 0 /\ (y % 100 # 0 \/ y % 400 = 0) THEN 29 ELSE 28)
    ELSE IF m \in {4, 6, 9, 11} THEN 30 ELSE 31

\* strptime raises ValueError unless the fields name a real date and time
StrptimeOk(ts) ==
    /\ ts.mon \in DOMAIN MonthNumber
    /\ ts.year >= 1
    /\ ts.day \in 1..DaysIn(ts.year, MonthNumber[ts.mon])
    /\ ts.hh \in 0..23 /\ ts.mm \in 0..59 /\ ts.ss \in 0..59
    /\ ts.off % 100 \in 0..59 /\ ts.off < 2400

Strptime(ts) ==
    [year |-> ts.year, month |-> MonthNumber[ts.mon], day |-> ts.day,
     hour |-> ts.hh, minute |-> ts.mm, second |-> ts.ss,
     tzsign |-> ts.sign, tzoff |-> ts.off]

-----------------------------------------------------------------------------
(* bot_name *)

\* "s in user_agent_str"
Contains(ua, s) == \E k \in 1..Len(ua) : ua[k] = s

\* the if/elif chain of lines 192-209, with the wrong branch order:
\* SEMrushBot is tested before Googlebot
BotNameSemrushFirst(ua, is_bot, family) ==
    IF Contains(ua, "SEMrushBot") THEN "SEMRush"
    ELSE IF Contains(ua, "Googlebot") THEN "Google"
    ELSE IF Contains(ua, "Bingbot") THEN "Bing"
    ELSE IF Contains(ua, "Applebot") THEN "Apple"
    ELSE IF Contains(ua, "YandexBot") \/ Contains(ua, "YandexMobileBot") THEN "Yandex"
    ELSE IF Contains(ua, "DuckDuckBot") THEN "DuckDuckGo"
    ELSE IF Contains(ua, "OpenLinkProfiler") \/ Contains(ua, "SiteExplorer") THEN "OpenSEO"
    ELSE IF is_bot THEN family
    ELSE "Human"

BotName(ua, is_bot, family) ==
    IF Contains(ua, "Googlebot") THEN "Google"
    ELSE IF Contains(ua, "Bingbot") THEN "Bing"
    ELSE IF Contains(ua, "Applebot") THEN "Apple"
    ELSE IF Contains(ua, "YandexBot") \/ Contains(ua, "YandexMobileBot") THEN "Yandex"
    ELSE IF Contains(ua, "DuckDuckBot") THEN "DuckDuckGo"
    ELSE IF Contains(ua, "SEMrushBot") THEN "SEMRush"
    ELSE IF Contains(ua, "OpenLinkProfiler") \/ Contains(ua, "SiteExplorer") THEN "OpenSEO"
    ELSE IF is_bot THEN family
    ELSE "Human"

-----------------------------------------------------------------------------
(* The body of the parse loop *)

\* the dict appended at lines 212-223; is_bot is the library's verdict as it is
MakeRecord(line) ==
    [timestamp |-> Strptime(line.ts),
     ip_address |-> line.ip,
     method |-> line.method,
     path |-> line.path,
     status_code |-> IntOf(line.status),
     bytes_sent |-> IF line.bytes # <<"-">> THEN IntOf(line.bytes) ELSE 0,
     referrer |-> line.referrer,
     user_agent |-> line.ua,
     is_bot |-> line.sniff.is_bot,
     bot_name |-> BotName(line.ua, line.sniff.is_bot, line.sniff.family)]

\* the loop body with the date conversion's failure swallowed too early: the
\* record is appended although strptime raised
LoopBodyKeepBadDate(d, line) ==
    IF ~LogPatternMatch(line) THEN d
    ELSE Append(d, MakeRecord([line EXCEPT !.ts.mon =
                                  IF @ \in DOMAIN MonthNumber THEN @ ELSE "Jan",
                               !.ts.day = 1, !.ts.hh = 0, !.ts.mm = 0, !.ts.ss = 0,
                               !.ts.off = 0, !.ts.year = IF @ >= 1 THEN @ ELSE 1]))

\* one iteration of lines 178-226: data after the try block and its except clause
LoopBody(d, line) ==
    IF ~LogPatternMatch(line) THEN d                \* "if match:" is false
    ELSE IF ~StrptimeOk(line.ts) THEN d             \* ValueError, "except: pass"
    ELSE Append(d, MakeRecord(line))

\* the whole loop
RECURSIVE ParseLoop(_, _)
ParseLoop(d, ls) ==
    IF ls = <<>> THEN d ELSE ParseLoop(LoopBody(d, Head(ls)), Tail(ls))

\* lines 236-238: the frame's rows carry the derived date and hour
DateOf(t) == t.year * 10000 + t.month * 100 + t.day

WithDateHour(r) ==
    [timestamp |-> r.timestamp, ip_address |-> r.ip_address, method |-> r.method,
     path |-> r.path, status_code |-> r.status_code, bytes_sent |-> r.bytes_sent,
     referrer |-> r.referrer, user_agent |-> r.user_agent, is_bot |-> r.is_bot,
     bot_name |-> r.bot_name, date |-> DateOf(r.timestamp), hour |-> r.timestamp.hour]

MakeFrame(d) == [k \in 1..Len(d) |-> WithDateHour(d[k])]

\* lines 232-239 with the st.error call left out
ParseReturnSilent(d) == [df |-> MakeFrame(d), error_no_valid |-> FALSE]

\* lines 232-239: what parse_log_file returns, and whether it raised st.error
ParseReturn(d) ==
    IF d = <<>> THEN [df |-> <<>>, error_no_valid |-> TRUE]
    ELSE [df |-> MakeFrame(d), error_no_valid |-> FALSE]

\* parse_log_file as one call
ParseLogFile(ls) == ParseReturn(ParseLoop(<<>>, ls))

-----------------------------------------------------------------------------
(* Input lines *)

SeqsUpTo(S, n) == UNION {[1..k -> S] : k \in 0..n}

\* the line of the end-to-end example
BaseLine ==
    [ip |-> <<203, 0, 113, 5>>,
     ts |-> [day |-> 1, mon |-> "Aug", year |-> 2025, hh |-> 10, mm |-> 0, ss |-> 1,
             sign |-> "+", off |-> 0, complete |-> TRUE],
     method |-> "GET", path |-> "/index.html", proto |-> "HTTP/1.1",
     status |-> <<"2", "0", "0">>, bytes |-> <<"1", "0", "2", "4">>,
     referrer |-> "http://example.com/",
     ua |-> <<"Mozilla/5.0", "Googlebot">>,
     closed |-> TRUE,
     sniff |-> [is_bot |-> TRUE, family |-> "Googlebot"]]

\* a browser request on the next day: 404, bytes "-", a path with a space
HumanLine ==
    [BaseLine EXCEPT !.ip = <<198, 51, 100, 7>>, !.ts.day = 2, !.ts.hh = 23,
                     !.method = "POST", !.path = "/a b", !.status = <<"4", "0", "4">>,
                     !.bytes = <<"-">>, !.referrer = "-",
                     !.ua = <<"Mozilla/5.0", "Chrome">>,
                     !.sniff = [is_bot |-> FALSE, family |-> "Chrome"]]

\* a crawler on the third day that gets a 404
CrawlerLine ==
    [BaseLine EXCEPT !.ts.day = 3, !.path = "/robots.txt", !.status = <<"4", "0", "4">>,
                     !.bytes = <<"0">>]

\* no trailing quoted user-agent
TruncatedLine == [BaseLine EXCEPT !.closed = FALSE]

WellFormedLines ==
    {BaseLine, HumanLine, CrawlerLine,
     \* a crawler unknown to the signature table
     [BaseLine EXCEPT !.ua = <<"AhrefsBot">>,
                      !.sniff = [is_bot |-> TRUE, family |-> "AhrefsBot"]],
     \* two signatures in one string
     [BaseLine EXCEPT !.ua = <<"SEMrushBot", "Googlebot">>, !.path = "/both"],
     \* a signature the library does not flag
     [HumanLine EXCEPT !.ua = <<"Mozilla/5.0", "SiteExplorer">>,
                       !.sniff = [is_bot |-> FALSE, family |-> "Other"]],
     \* a timezone west of Greenwich
     [HumanLine EXCEPT !.ts.sign = "-", !.ts.off = 500, !.path = "/west"]}

MalformedLines ==
    {TruncatedLine,
     [BaseLine EXCEPT !.status = <<"2", "0">>],          \* two status digits
     [BaseLine EXCEPT !.ts.complete = FALSE],            \* truncated timestamp
     [BaseLine EXCEPT !.ts.mon = "Xyz"],                 \* no such month
     [BaseLine EXCEPT !.ts.day = 31, !.ts.mon = "Feb"],  \* no such day
     [BaseLine EXCEPT !.method = "OPTIONS"],
     [BaseLine EXCEPT !.bytes = <<"1", "k">>]}

LineCatalogue == WellFormedLines \cup MalformedLines

Signatures ==
    {"Googlebot", "Bingbot", "Applebot", "YandexBot", "YandexMobileBot",
     "DuckDuckBot", "SEMrushBot", "OpenLinkProfiler", "SiteExplorer"}

UaTokens == Signatures \cup {"Mozilla/5.0", "googlebot"}

Verdicts ==
    {[is_bot |-> FALSE, family |-> "Chrome"],
     [is_bot |-> TRUE, family |-> "Googlebot"],
     [is_bot |-> TRUE, family |-> "AhrefsBot"]}

\* the base line with every user-agent and every verdict of the library
ClassifyLines ==
    {[BaseLine EXCEPT !.ua = u, !.sniff = v] :
        u \in SeqsUpTo(UaTokens, MaxUaTokens), v \in Verdicts}

-----------------------------------------------------------------------------
(* Values of the variables a specification does not use *)

NoResult == [returned |-> FALSE, df |-> <<>>, error_no_valid |-> FALSE]

ParseIdle ==
    /\ lines = <<>> /\ i = 0 /\ data = <<>> /\ progress = <<0, 1>>
    /\ pc = "idle" /\ result = NoResult

NoFile == [present |-> FALSE, lines |-> <<>>]

AllStatusCodes == [all |-> TRUE, code |-> 0]

NoCriteria ==
    [start_date |-> 0, end_date |-> 0, bot_filter |-> "All Traffic",
     status_filter |-> AllStatusCodes]

EmptyPage ==
    [info_upload |-> FALSE, error_no_valid |-> FALSE, success_loaded |-> FALSE,
     metrics_shown |-> FALSE, total_requests |-> 0, bot_requests |-> 0, unique_ips |-> 0,
     filters_shown |-> FALSE, exports |-> "none", export_rows |-> <<>>,
     views_shown |-> FALSE, bot_distribution |-> <<>>, status_code_distribution |-> <<>>,
     top_paths |-> <<>>, traffic_over_time |-> <<>>, warning_no_match |-> FALSE]

AppIdle ==
    /\ uploaded_file = NoFile
    /\ session_state = [has_filtered_df |-> FALSE, filtered_df |-> <<>>]
    /\ apply_filters = FALSE /\ criteria = NoCriteria
    /\ df = <<>> /\ filtered_df = <<>> /\ page = EmptyPage
    /\ stored_by = "none"

-----------------------------------------------------------------------------
(* parse_log_file, line by line *)

InitParse ==
    /\ lines \in SeqsUpTo(LineCatalogue, MaxLines) \cup {<<l>> : l \in ClassifyLines}
    /\ i = 0
    /\ data = <<>>
    /\ progress = <<0, 1>>          \* st.progress(0)
    /\ pc = "loop"
    /\ result = NoResult
    /\ AppIdle

\* the loop iteration with the progress call of line 228 inside "if match:",
\* after data.append: a line that yields no record does not advance the bar
ParseIterationProgressInTry ==
    /\ pc = "loop" /\ i < Len(lines)
    /\ data' = LoopBody(data, lines[i + 1])
    /\ progress' = IF data' # data THEN <<i + 1, Len(lines)>> ELSE progress
    /\ i' = i + 1
    /\ UNCHANGED <<lines, pc, result>>
    /\ UNCHANGED appVars

\* lines 178-228: one iteration of the for loop
ParseIteration ==
    /\ pc = "loop" /\ i < Len(lines)
    /\ data' = LoopBody(data, lines[i + 1])
    /\ progress' = <<i + 1, Len(lines)>>
    /\ i' = i + 1
    /\ UNCHANGED <<lines, pc, result>>
    /\ UNCHANGED appVars

\* lines 230-239: the loop is over
ParseFinish ==
    /\ pc = "loop" /\ i = Len(lines)
    /\ result' = [returned |-> TRUE, df |-> ParseReturn(data).df,
                  error_no_valid |-> ParseReturn(data).error_no_valid]
    /\ pc' = "done"
    /\ UNCHANGED <<lines, i, data, progress>>
    /\ UNCHANGED appVars

NextParse == ParseIteration \/ ParseFinish

SpecParse == InitParse /\ [][NextParse]_vars

-----------------------------------------------------------------------------
(* pandas: columns, value_counts, sorting *)

\* head(10) at line 451
TopN == 10

PathCol(frame) == [k \in 1..Len(frame) |-> frame[k].path]
BotNameCol(frame) == [k \in 1..Len(frame) |-> frame[k].bot_name]
StatusCol(frame) == [k \in 1..Len(frame) |-> frame[k].status_code]
DateCol(frame) == [k \in 1..Len(frame) |-> frame[k].date]

\* the distinct values of a column, in order of first appearance
RECURSIVE Unique(_)
Unique(col) ==
    IF col = <<>> THEN <<>>
    ELSE LET u == Unique(SubSeq(col, 1, Len(col) - 1))
             x == col[Len(col)]
         IN  IF Contains(u, x) THEN u ELSE Append(u, x)

CountOf(col, x) == Cardinality({k \in 1..Len(col) : col[k] = x})

\* e rearranged by a strict total order on its indices, given as the set of
\* the pairs <<m, n>> with m before n
SortEntries(e, before) ==
    [pos \in 1..Len(e) |->
        e[CHOOSE n \in 1..Len(e) :
            Cardinality({m \in 1..Len(e) : <<m, n>> \in before}) = pos - 1]]

\* the pairs of indices of e that satisfy a comparison
Pairs(e) == (1..Len(e)) \X (1..Len(e))

\* The order pandas gives to equal counts is that of its sorting routine and is
\* not fixed by its interface: equal counts come in order of appearance
\* ("stable") or in the reverse of it ("reversed").
TieOrders == {"stable", "reversed"}

TieBefore(tie, m, n) == IF tie = "stable" THEN m < n ELSE m > n

\* Series.value_counts(): one entry per distinct value, largest count first
ValueCounts(col, tie) ==
    LET keys == Unique(col)
        e == [n \in 1..Len(keys) |-> [key |-> keys[n], count |-> CountOf(col, keys[n])]]
    IN  SortEntries(e, {q \in Pairs(e) :
                           \/ e[q[1]].count > e[q[2]].count
                           \/ e[q[1]].count = e[q[2]].count /\ TieBefore(tie, q[1], q[2])})

\* Series.head(n)
HeadN(e, n) == SubSeq(e, 1, IF Len(e) < n THEN Len(e) ELSE n)

\* Series.sort_values(ascending=True)
SortValuesAscending(e, tie) ==
    SortEntries(e, {q \in Pairs(e) :
                       \/ e[q[1]].count < e[q[2]].count
                       \/ e[q[1]].count = e[q[2]].count /\ TieBefore(tie, q[1], q[2])})

\* Series.sort_index()
SortIndex(e) == SortEntries(e, {q \in Pairs(e) : e[q[1]].key < e[q[2]].key})

RECURSIVE SumCounts(_)
SumCounts(e) == IF e = <<>> THEN 0 ELSE Head(e).count + SumCounts(Tail(e))

-----------------------------------------------------------------------------
(* The views of lines 358-499 *)

\* line 451 without the final sort: the entries stay largest first
TopPathsDescending(frame, tie1, tie2) ==
    HeadN(ValueCounts(PathCol(frame), tie1), TopN)

\* line 451
TopPaths(frame, tie1, tie2) ==
    SortValuesAscending(HeadN(ValueCounts(PathCol(frame), tie1), TopN), tie2)

\* line 388
BotDistribution(frame, tie) == ValueCounts(BotNameCol(frame), tie)

\* line 414
StatusCodeDistribution(frame, tie) == SortIndex(ValueCounts(StatusCol(frame), tie))

\* lines 476-479
TrafficOverTime(frame, tie) == SortIndex(ValueCounts(DateCol(frame), tie))

-----------------------------------------------------------------------------
(* main(): one run of the script *)

\* lines 338-347: the three masks applied one after the other
FilterStep(frame, c) ==
    LET byDate == SelectSeq(frame, LAMBDA r : r.date >= c.start_date /\ r.date <= c.end_date)
        byBot == IF c.bot_filter # "All Traffic"
                 THEN SelectSeq(byDate, LAMBDA r : r.bot_name = c.bot_filter)
                 ELSE byDate
    IN  IF ~c.status_filter.all
        THEN SelectSeq(byBot, LAMBDA r : r.status_code = c.status_filter.code)
        ELSE byBot

\* lines 337-352: what the rerun leaves in st.session_state
SessionAfter(session, frame, apply, c) ==
    LET clicked == IF apply
                   THEN [has_filtered_df |-> TRUE, filtered_df |-> FilterStep(frame, c)]
                   ELSE session
    IN  IF ~clicked.has_filtered_df \/ apply
        THEN [has_filtered_df |-> TRUE, filtered_df |-> frame]
        ELSE clicked

\* lines 290-292
Metrics(frame) ==
    [total_requests |-> Len(frame),
     bot_requests |-> Cardinality({k \in 1..Len(frame) : frame[k].is_bot}),
     unique_ips |-> Cardinality({frame[k].ip_address : k \in 1..Len(frame)})]

\* lines 358-502
RenderViews(p, frame, tie1, tie2) ==
    IF frame # <<>>
    THEN [p EXCEPT !.exports = "enabled", !.export_rows = frame,
                   !.views_shown = TRUE,
                   !.bot_distribution = BotDistribution(frame, tie1),
                   !.status_code_distribution = StatusCodeDistribution(frame, tie1),
                   !.top_paths = TopPaths(frame, tie1, tie2),
                   !.traffic_over_time = TrafficOverTime(frame, tie1)]
    ELSE [p EXCEPT !.warning_no_match = TRUE]

\* lines 279-355 and 504-508: st.session_state after the run
SessionOf(uploaded, session, frame, apply, c) ==
    IF uploaded.present /\ frame # <<>>
    THEN SessionAfter(session, frame, apply, c)
    ELSE session

\* the views read the local copy of line 334; line 355 is missing
FilteredOfLocalCopy(session, frame) == frame

\* lines 334-355: the local filtered_df the views read
FilteredOf(session, frame) == IF frame # <<>> THEN session.filtered_df ELSE <<>>

\* lines 276-511: what the run puts on the page, given the parse result r and
\* the frame fdf read back from st.session_state
PageOf(uploaded, r, fdf, tie1, tie2) ==
    IF ~uploaded.present
    THEN \* lines 507-511
         [EmptyPage EXCEPT !.info_upload = TRUE, !.exports = "disabled"]
    ELSE IF r.df = <<>>
    THEN \* lines 233 and 504-505
         [EmptyPage EXCEPT !.error_no_valid = r.error_no_valid, !.info_upload = TRUE]
    ELSE \* lines 282-502
         RenderViews([EmptyPage EXCEPT !.error_no_valid = r.error_no_valid,
                                       !.success_loaded = TRUE,
                                       !.metrics_shown = TRUE,
                                       !.total_requests = Metrics(r.df).total_requests,
                                       !.bot_requests = Metrics(r.df).bot_requests,
                                       !.unique_ips = Metrics(r.df).unique_ips,
                                       !.filters_shown = TRUE],
                     fdf, tie1, tie2)

\* the values the filter widgets of lines 315-327 can return for a frame
MinDate(frame) == CHOOSE d \in {frame[k].date : k \in 1..Len(frame)} :
                      \A k \in 1..Len(frame) : d <= frame[k].date
MaxDate(frame) == CHOOSE d \in {frame[k].date : k \in 1..Len(frame)} :
                      \A k \in 1..Len(frame) : d >= frame[k].date

CriteriaFor(frame) ==
    [start_date : MinDate(frame)..MaxDate(frame),
     end_date : MinDate(frame)..MaxDate(frame),
     bot_filter : {"All Traffic"} \cup {frame[k].bot_name : k \in 1..Len(frame)},
     status_filter : {AllStatusCodes} \cup
                     {[all |-> FALSE, code |-> frame[k].status_code] : k \in 1..Len(frame)}]

-----------------------------------------------------------------------------
(* The application: uploads, reruns and clicks *)

\* longest uploaded file
MaxFileLines == 2

AppLines == {BaseLine, HumanLine, TruncatedLine}

AppFiles == SeqsUpTo(AppLines, MaxFileLines)

\* the parse result of a run: parse_log_file is called only when a file is there
ParseOf(uploaded) ==
    IF uploaded.present
    THEN [returned |-> TRUE, df |-> ParseLogFile(uploaded.lines).df,
          error_no_valid |-> ParseLogFile(uploaded.lines).error_no_valid]
    ELSE NoResult

\* the filter step written so that it rebinds df: df = df[mask]
DfFilteredInPlace(frame, apply, c) ==
    IF apply /\ frame # <<>> THEN FilterStep(frame, c) ELSE frame

\* lines 334-355: the store df after the filter step.  Every assignment there
\* is to filtered_df or st.session_state.filtered_df, and each right-hand side
\* (df.copy(), df[mask].copy(), a boolean-mask selection) is a new frame: df
\* itself is neither rebound nor changed in place.
DfAfterFilterStep(frame, apply, c) == frame

\* lines 337-352: which kind of run last assigned st.session_state.filtered_df
StoredByAfter(prev, uploaded, session, frame, apply) ==
    IF uploaded.present /\ frame # <<>> /\ (apply \/ ~session.has_filtered_df)
    THEN (IF apply THEN "click" ELSE "load")
    ELSE prev

\* main(), lines 242-511: one run of the script from top to bottom
Run(uploaded, apply, c, tie1, tie2) ==
    /\ uploaded_file' = uploaded
    /\ apply_filters' = apply
    /\ criteria' = c
    /\ result' = ParseOf(uploaded)
    /\ df' = DfAfterFilterStep(result'.df, apply, c)
    /\ session_state' = SessionOf(uploaded, session_state, result'.df, apply, c)
    /\ filtered_df' = FilteredOf(session_state', result'.df)
    /\ page' = PageOf(uploaded, result', filtered_df', tie1, tie2)
    /\ stored_by' = StoredByAfter(stored_by, uploaded, session_state, result'.df, apply)
    /\ UNCHANGED <<lines, i, data, progress, pc>>

\* the first run of the script in a new session: nothing is uploaded
Init ==
    /\ lines = <<>> /\ i = 0 /\ data = <<>> /\ progress = <<0, 1>> /\ pc = "idle"
    /\ uploaded_file = NoFile
    /\ apply_filters = FALSE
    /\ criteria = NoCriteria
    /\ result = ParseOf(NoFile)
    /\ df = <<>>
    /\ session_state = [has_filtered_df |-> FALSE, filtered_df |-> <<>>]
    /\ filtered_df = <<>>
    /\ page = PageOf(NoFile, NoResult, <<>>, "stable", "stable")
    /\ stored_by = "none"

\* the user drops a file on the uploader
Upload ==
    /\ pc = "idle"
    /\ \E f \in AppFiles, tie1 \in TieOrders, tie2 \in TieOrders :
           Run([present |-> TRUE, lines |-> f], FALSE, NoCriteria, tie1, tie2)

\* the user removes the file from the uploader
RemoveFile ==
    /\ uploaded_file.present
    /\ Run(NoFile, FALSE, NoCriteria, "stable", "stable")

\* the user changes a filter widget: a rerun in which the button is not clicked
Rerun ==
    /\ page.filters_shown
    /\ \E tie1 \in TieOrders, tie2 \in TieOrders :
           Run(uploaded_file, FALSE, NoCriteria, tie1, tie2)

\* the user clicks Apply Filters
ClickApply ==
    /\ page.filters_shown
    /\ \E c \in CriteriaFor(df), tie1 \in TieOrders, tie2 \in TieOrders :
           Run(uploaded_file, TRUE, c, tie1, tie2)

Next == Upload \/ RemoveFile \/ Rerun \/ ClickApply

Spec == Init /\ [][Next]_vars

-----------------------------------------------------------------------------
(* The top-paths view on frames with more paths than it shows *)

\* number of distinct paths in the largest frame
NPaths == 11

PathNames ==
    <<"/p01", "/p02", "/p03", "/p04", "/p05", "/p06", "/p07",
      "/p08", "/p09", "/p10", "/p11", "/p12", "/p13">>

\* the second requests: one more row for every path of hot, in path order
RECURSIVE SecondHits(_, _)
SecondHits(n, hot) ==
    IF n = 0 THEN <<>>
    ELSE IF n \in hot THEN Append(SecondHits(n - 1, hot), n)
    ELSE SecondHits(n - 1, hot)

\* a frame in which paths 1..n are requested once, in this order, and the paths
\* of hot a second time
PathFrame(n, hot) ==
    LET col == [k \in 1..n |-> k] \o SecondHits(n, hot)
    IN  [k \in 1..Len(col) |->
            WithDateHour(MakeRecord([BaseLine EXCEPT !.path = PathNames[col[k]]]))]

InitPaths ==
    /\ ParseIdle
    /\ uploaded_file = NoFile
    /\ apply_filters = FALSE /\ criteria = NoCriteria
    /\ df = <<>>
    /\ \E n \in 0..NPaths : \E hot \in SUBSET (1..n) :
           /\ filtered_df = PathFrame(n, hot)
           /\ session_state = [has_filtered_df |-> TRUE, filtered_df |-> filtered_df]
    /\ page = EmptyPage
    /\ stored_by = "load"

\* line 451 on the frame
RenderTopPaths ==
    /\ ~page.views_shown
    /\ \E tie1 \in TieOrders, tie2 \in TieOrders :
           page' = [page EXCEPT !.views_shown = TRUE,
                                !.top_paths = TopPaths(filtered_df, tie1, tie2)]
    /\ UNCHANGED <<uploaded_file, session_state, apply_filters, criteria, df, filtered_df,
                   stored_by>>
    /\ UNCHANGED parseVars

NextPaths == RenderTopPaths

SpecPaths == InitPaths /\ [][NextPaths]_vars

-----------------------------------------------------------------------------
(* Definitions the properties share *)

\* a line that yields no record: it fails the pattern or the date conversion
Malformed(line) == ~LogPatternMatch(line) \/ ~StrptimeOk(line.ts)

\* number of valid lines among the first k
ValidUpTo(k) == Cardinality({m \in 1..k : ~Malformed(lines[m])})

\* the fields a record copies from its line
CopiesLine(r, line) ==
    /\ r.ip_address = line.ip
    /\ r.method = line.method
    /\ r.path = line.path
    /\ r.status_code = 100 * DigitVal[line.status[1]] + 10 * DigitVal[line.status[2]]
                       + DigitVal[line.status[3]]
    /\ r.referrer = line.referrer
    /\ r.user_agent = line.ua
    /\ r.bytes_sent = IF line.bytes = <<"-">> THEN 0 ELSE IntOf(line.bytes)

\* the filter of the record store's contract: one pass, one conjunction
Satisfies(r, c) ==
    /\ c.start_date <= r.date /\ r.date <= c.end_date
    /\ (c.bot_filter = "All Traffic" \/ r.bot_name = c.bot_filter)
    /\ (c.status_filter.all \/ r.status_code = c.status_filter.code)

Matching(frame, c) == SelectSeq(frame, LAMBDA r : Satisfies(r, c))

-----------------------------------------------------------------------------
(* C1 *)

\* C1: after a rerun in which Apply Filters was clicked, the working set of the
\* views and exports is exactly the subsequence of the loaded records, in store
\* order, that satisfy the criteria.
C1_ApplyStoresMatchingRecords ==
    (apply_filters /\ page.filters_shown) =>
        /\ session_state.filtered_df = Matching(df, criteria)
        /\ filtered_df = Matching(df, criteria)

-----------------------------------------------------------------------------
(* C2 *)

\* C2: whenever views are rendered for an uploaded file, every record of the
\* frame they are computed from is a record of the most recently uploaded file.
C2_ViewsShowOnlyCurrentUpload ==
    (uploaded_file.present /\ page.views_shown) =>
        \A k \in 1..Len(filtered_df) : \E j \in 1..Len(df) : filtered_df[k] = df[j]

-----------------------------------------------------------------------------
(* C3 *)

\* C3: on every rendered page, TOTAL REQUESTS equals the sum of the status-code
\* distribution's counts and the sum of the bot distribution's counts.
C3_TotalEqualsDistributionSums ==
    page.views_shown =>
        /\ page.total_requests = SumCounts(page.status_code_distribution)
        /\ page.total_requests = SumCounts(page.bot_distribution)

-----------------------------------------------------------------------------
(* C4 *)

-----------------------------------------------------------------------------
(* C5 *)

\* a line that is well-formed under the documented grammar: the timezone
\* offset has either sign
GrammarWellFormed(line) ==
    /\ IpMatch(line.ip)
    /\ line.ts.complete /\ line.ts.sign \in {"+", "-"} /\ StrptimeOk(line.ts)
    /\ line.method \in Methods
    /\ line.proto \in HttpVersions
    /\ Len(line.status) = 3 /\ AllDigits(line.status)
    /\ BytesMatch(line.bytes)
    /\ line.closed

\* C5: every processed line that is well-formed under the documented grammar
\* has a record that copies its fields, bytes_sent being 0 for "-".
C5_WellFormedLineYieldsRecord ==
    (pc \in {"loop", "done"}) =>
        \A k \in 1..i : GrammarWellFormed(lines[k]) =>
            \E j \in 1..Len(data) : CopiesLine(data[j], lines[k])

-----------------------------------------------------------------------------
(* C6 *)

\* the signature table in its priority order
SignatureTable ==
    <<[subs |-> {"Googlebot"}, label |-> "Google"],
      [subs |-> {"Bingbot"}, label |-> "Bing"],
      [subs |-> {"Applebot"}, label |-> "Apple"],
      [subs |-> {"YandexBot", "YandexMobileBot"}, label |-> "Yandex"],
      [subs |-> {"DuckDuckBot"}, label |-> "DuckDuckGo"],
      [subs |-> {"SEMrushBot"}, label |-> "SEMRush"],
      [subs |-> {"OpenLinkProfiler", "SiteExplorer"}, label |-> "OpenSEO"]>>

SignatureHits(ua) ==
    {n \in 1..Len(SignatureTable) : \E s \in SignatureTable[n].subs : Contains(ua, s)}

FirstSignatureLabel(ua, verdict) ==
    IF SignatureHits(ua) # {}
    THEN SignatureTable[CHOOSE n \in SignatureHits(ua) :
                            \A m \in SignatureHits(ua) : n <= m].label
    ELSE IF verdict.is_bot THEN verdict.family ELSE "Human"

\* C6: the bot_name of every record is the label of the first signature of the
\* table that occurs in its line's user-agent, else the library's family when
\* it flags a bot, else "Human".
C6_FirstSignatureWins ==
    (pc \in {"loop", "done"}) =>
        \A k \in 1..i : ~Malformed(lines[k]) =>
            /\ ValidUpTo(k) \in 1..Len(data)
            /\ data[ValidUpTo(k)].bot_name =
                   FirstSignatureLabel(lines[k].ua, lines[k].sniff)

\* a record whose user-agent holds SEMrushBot before Googlebot and is Google
C6_Witness ==
    /\ pc = "done"
    /\ \E j \in 1..Len(data) :
           /\ data[j].user_agent = <<"SEMrushBot", "Googlebot">>
           /\ data[j].bot_name = "Google"

-----------------------------------------------------------------------------
(* C7 *)

\* C7: every record whose is_bot is false has bot_name "Human".
C7_NotBotIsHuman ==
    \A j \in 1..Len(data) : ~data[j].is_bot => data[j].bot_name = "Human"

-----------------------------------------------------------------------------
(* C8 *)

DistinctPaths(frame) == {frame[k].path : k \in 1..Len(frame)}

Hits(frame, p) == Cardinality({k \in 1..Len(frame) : frame[k].path = p})

\* at most 10 entries, one per path, with the paths' true counts, and no path
\* left out has more requests than a path shown
TopPathsAreTheMostRequested ==
    LET v == page.top_paths
        shown == {v[n].key : n \in 1..Len(v)}
    IN  /\ Len(v) <= 10
        /\ Cardinality(shown) = Len(v)
        /\ shown \subseteq DistinctPaths(filtered_df)
        /\ Len(v) = 10 \/ shown = DistinctPaths(filtered_df)
        /\ \A n \in 1..Len(v) : v[n].count = Hits(filtered_df, v[n].key)
        /\ \A p \in DistinctPaths(filtered_df) \ shown :
               \A n \in 1..Len(v) : Hits(filtered_df, p) <= v[n].count

\* C8 as stated: the view is the top 10 and its entries are ordered by count
\* descending.
C8_TopPathsDescending ==
    page.views_shown =>
        /\ TopPathsAreTheMostRequested
        /\ \A n \in 1..(Len(page.top_paths) - 1) :
               page.top_paths[n].count >= page.top_paths[n + 1].count

\* C8 amended: the view is the top 10 and its entries are ordered by count
\* ascending, the order the horizontal bar chart is given.
C8_TopPathsAscending ==
    page.views_shown =>
        /\ TopPathsAreTheMostRequested
        /\ \A n \in 1..(Len(page.top_paths) - 1) :
               page.top_paths[n].count <= page.top_paths[n + 1].count

\* a view of a frame with more than 10 paths: it shows 10, with different
\* counts among them, and leaves out a path
C8_Witness ==
    /\ page.views_shown
    /\ Cardinality(DistinctPaths(filtered_df)) > 10
    /\ Len(page.top_paths) = 10
    /\ page.top_paths[1].count < page.top_paths[10].count

-----------------------------------------------------------------------------
(* C9 *)

\* C9: a click on Apply Filters with criteria no loaded record satisfies gives
\* the empty result, reported by the "No data matches" warning and not as an
\* error or as the unfiltered set.
C9_NoMatchGivesEmptyResult ==
    (apply_filters /\ page.filters_shown /\ Matching(df, criteria) = <<>>) =>
        /\ filtered_df = <<>>
        /\ page.warning_no_match
        /\ ~page.views_shown
        /\ ~page.error_no_valid /\ ~page.info_upload

-----------------------------------------------------------------------------
(* C10 *)

\* C10: when the uploaded file yields no record, the page shows the "No valid
\* log entries" error and no metrics, filters, views or exports, and never
\* together with the "No data matches" warning of an empty filter result.
C10_EmptyParseIsExplicitFailure ==
    /\ (uploaded_file.present /\ ParseLoop(<<>>, uploaded_file.lines) = <<>>) =>
           /\ page.error_no_valid
           /\ ~page.success_loaded /\ ~page.metrics_shown /\ ~page.filters_shown
           /\ ~page.views_shown /\ page.exports = "none"
           /\ ~page.warning_no_match
    /\ page.error_no_valid =>
           /\ uploaded_file.present
           /\ ParseLoop(<<>>, uploaded_file.lines) = <<>>
    /\ page.warning_no_match => ~page.error_no_valid

\* a file of malformed lines only, uploaded after a file that had loaded
C10_Witness ==
    /\ uploaded_file.present
    /\ Len(uploaded_file.lines) = 2
    /\ session_state.has_filtered_df
    /\ page.error_no_valid

-----------------------------------------------------------------------------
(* C11 *)

\* C11: a rerun caused by a click on Apply Filters, whatever the criteria and
\* however many clicks came before, leaves the loaded record store df with the
\* same records in the same order as before the click.
C11_ApplyLeavesStoreUnchanged ==
    [][(page.filters_shown /\ apply_filters' /\ uploaded_file' = uploaded_file)
           => df' = df]_vars

\* after a click whose criteria leave out a record of a two-record store, the
\* store still holds both records of the file
C11_Witness ==
    /\ apply_filters /\ page.filters_shown
    /\ Len(df) = 2
    /\ Len(Matching(df, criteria)) = 1
    /\ df = MakeFrame(ParseLoop(<<>>, uploaded_file.lines))

-----------------------------------------------------------------------------
(* C12 *)

\* C12: once a click on Apply Filters has stored a set, a later rerun for the
\* same uploaded file without a click leaves st.session_state.filtered_df as
\* it was, and the views and exports of that rerun are computed from that set.
C12_FiltersStickAcrossReruns ==
    /\ []((stored_by = "click" /\ ~apply_filters /\ page.filters_shown) =>
              /\ filtered_df = session_state.filtered_df
              /\ page.views_shown
              /\ page.export_rows = session_state.filtered_df
              /\ SumCounts(page.bot_distribution) = Len(session_state.filtered_df)
              /\ SumCounts(page.status_code_distribution) = Len(session_state.filtered_df))
    /\ [][(stored_by = "click" /\ page.filters_shown /\ ~apply_filters'
           /\ uploaded_file' = uploaded_file)
              => session_state' = session_state]_vars

\* a rerun without a click, after a click, for a file of two records: the
\* stored set is there and the views show it
C12_Witness ==
    /\ stored_by = "click" /\ ~apply_filters
    /\ uploaded_file.present /\ page.views_shown
    /\ Len(session_state.filtered_df) = 2
    /\ session_state.filtered_df = df
    /\ page.export_rows = session_state.filtered_df

-----------------------------------------------------------------------------
(* C13 *)

\* C13: during a parse of a file with total_lines > 0 the progress counter,
\* progress[1] lines of progress[2], never decreases, advances by exactly one
\* with each input line whether or not the line gave a record, never exceeds
\* total_lines and equals it when the loop has ended; and the records
\* accumulated are never more than the lines processed.
C13_ProgressCountsLines ==
    /\ []((pc \in {"loop", "done"} /\ Len(lines) > 0) =>
              /\ progress[1] <= Len(lines)
              /\ progress[1] > 0 => progress[2] = Len(lines)
              /\ Len(data) <= progress[1]
              /\ pc = "done" => progress[1] = Len(lines))
    /\ [][(pc = "loop" /\ Len(lines) > 0) =>
              /\ progress'[1] * progress[2] >= progress[1] * progress'[2]
              /\ i' = i + 1 => progress'[1] = progress[1] + 1
              /\ i' = i => progress' = progress]_vars

\* a finished parse of three lines of which only one gave a record: the
\* counter stands at 3 of 3
C13_Witness ==
    /\ pc = "done" /\ Len(lines) = 3
    /\ progress = <<3, 3>>
    /\ Len(data) = 1
    /\ Malformed(lines[1]) /\ ~Malformed(lines[2]) /\ Malformed(lines[3])

====
